---- MODULE Spec2Model ----
(***************************************************************************)
(* Model of the DBMan browser-side widgets (mj/*.js):                      *)
(*   - ContainerMJ instance cache and the four-phase construction          *)
(*   - ModalAlertMJ confirm handlers and the datatable's per-row delete    *)
(*   - FormModifyMJ dirty check and submit                                 *)
(*   - DatajsonMJ type/data/schema/card state with pending fetches         *)
(* Each widget family has its own specification over the shared variables. *)
(***************************************************************************)
EXTENDS Integers, Sequences, FiniteSets, TLC

(***************************************************************************)
(* Bounds                                                                  *)
(***************************************************************************)
MaxInst == 3
MaxDel == 2       \* DELETE requests issued per record
MaxRuns == 2      \* invocations of one confirm listener
MaxPost == 2      \* POST requests of the modify form
MaxTimers == 1     \* auto-hide timers pending at once
MaxListed == 2     \* longest buttonTypes array passed to update(), besides the full one

MaxDjInst == 2     \* DatajsonMJ instances on the page

MaxCards == 3      \* cards rendered

MaxTasks == 2      \* async calls pending at once

MaxFetch == 2      \* structure requests per type

MaxDjOps == 3      \* constructor, update and input-change events

(***************************************************************************)
(* State                                                                   *)
(***************************************************************************)
VARIABLES
  instances,      \* heap of ContainerMJ objects: Seq of [cls, elem, trace]
  domInstance,    \* element.__containerMJInstance : element -> instance id, 0 = unset
  lastCall,       \* the last static call / construction and what it returned
  baseHasPhases,  \* whether BaseMJ itself defines the four phase methods
  \* ---- ModalAlertMJ (one shared instance per page)
  btnListeners,           \* click listeners on btnConfirm, in order of registration
  confirmActionHandlers,  \* this.confirmActionHandlers (listener ids)
  btnVisible,             \* button name -> it does not carry the class d-none
  modalShown,             \* the Bootstrap modal is displayed
  modalBody,              \* [key, rec]: the predefined text and the message shown
  confirmDismisses,       \* the template's confirm button carries data-bs-dismiss
  navigated,              \* "none", or how the page was left (reload / prev-page)
  timers,                 \* pending setTimeout(() => this.hide(), timeout) callbacks
  hiddenOnce,             \* {once: true} listeners for hidden.bs.modal that redirect
  \* ---- DatatableMJ delete
  delIssued,      \* record -> DELETE requests sent for its URL
  delPending,     \* record -> DELETE requests without a response yet
  lastEvent,      \* the last handled event
  warned,         \* records whose delete button has been clicked
  staleInvoked,   \* a confirm listener ran although a later update() had been made
  \* ---- FormModifyMJ
  pks,            \* fromTemplate['pks']: "_new" or the record's key
  initialData,    \* JSON.parse(fromTemplate['original_data']): field -> JSON value
  loadedForm,     \* the form's fields as the page rendered them
  form,           \* the form's fields now: [qty: string, flag: checked]
  qtyRequired,    \* the qty input carries the attribute required
  posts,          \* POST requests sent
  postPending,    \* POST requests without a response yet
  \* ---- DatajsonMJ
  dj,             \* instances, static caches, rendered cards and pending async calls
  \* ---- DatatableMJ rows and columns, ModalDatatableConfig
  grid            \* the table's DOM, the search state, the config list and its snapshots

contVars == <<instances, domInstance, lastCall, baseHasPhases>>

alertVars == <<btnListeners, confirmActionHandlers, btnVisible, modalShown, modalBody,
               confirmDismisses, navigated, timers, hiddenOnce>>

formVars == <<pks, initialData, loadedForm, form, qtyRequired, posts, postPending>>

djVars == <<dj>>

gridVars == <<grid>>

tableVars == <<delIssued, delPending, lastEvent, warned, staleInvoked>>

vars == <<instances, domInstance, lastCall, baseHasPhases,
          btnListeners, confirmActionHandlers, btnVisible, modalShown, modalBody,
          confirmDismisses, navigated, timers, hiddenOnce,
          delIssued, delPending, lastEvent, warned, staleInvoked,
          pks, initialData, loadedForm, form, qtyRequired, posts, postPending, dj, grid>>

(***************************************************************************)
(* Values and the idle state of each widget family                         *)
(***************************************************************************)
Elems == {"e1", "e2"}

Recs == {"r1", "r2"}

Btns == {"acknowledge", "confirm", "cancel"}

\* arguments of the static calls: an element, a selector that matches nothing,
\* a falsy value, or an existing instance
ElemArg(e) == [kind |-> "elem", elem |-> e, inst |-> 0]
InstArg(i) == [kind |-> "inst", elem |-> "none", inst |-> i]
NoMatch == [kind |-> "nomatch", elem |-> "none", inst |-> 0]
NullArg == [kind |-> "null", elem |-> "none", inst |-> 0]

\* results: an instance, null, or a thrown error
RetInst(i) == [kind |-> "instance", id |-> i]
RetNull == [kind |-> "null", id |-> 0]
Throw(err) == [kind |-> err, id |-> 0]

NoCall == [op |-> "none", cls |-> "none", arg |-> NullArg, ret |-> RetNull,
           nBefore |-> 0, cachedBefore |-> 0]

AlertIdle ==
  /\ btnListeners = <<>>
  /\ confirmActionHandlers = <<>>
  /\ btnVisible = [b \in Btns |-> TRUE]
  /\ modalShown = FALSE
  /\ modalBody = [key |-> "none", rec |-> "none"]
  /\ confirmDismisses = FALSE
  /\ navigated = "none"
  /\ timers = 0
  /\ hiddenOnce = 0

TableIdle ==
  /\ delIssued = [r \in Recs |-> 0]
  /\ delPending = [r \in Recs |-> 0]
  /\ lastEvent = "none"
  /\ warned = {}
  /\ staleInvoked = FALSE

ContIdle ==
  /\ instances = <<>>
  /\ domInstance = [e \in Elems |-> 0]
  /\ lastCall = NoCall

\* JSON values of original_data, and the strings of FormData
Undefined == [t |-> "undefined", v |-> ""]
Null == [t |-> "null", v |-> ""]
Str(x) == [t |-> "string", v |-> x]
Num(x) == [t |-> "number", v |-> x]

FormIdle ==
  /\ pks = "_new"
  /\ initialData = [qty |-> Undefined, flag |-> Undefined]
  /\ loadedForm = [qty |-> "", flag |-> FALSE]
  /\ form = [qty |-> "", flag |-> FALSE]
  /\ qtyRequired = FALSE
  /\ posts = 0
  /\ postPending = 0

\* ---- DatajsonMJ values
DjTypes == {"A", "B"}                  \* datajson types the server knows

NoType == ""                           \* a falsy type (null or '')

DjFields(T) ==                         \* structure['data'] served for type T
  IF T = "A" THEN <<"x", "y">> ELSE IF T = "B" THEN <<"y">> ELSE <<>>

AllFields == {"x", "y"}

\* the structure served for type T: the field list, the lists of the required,
\* read-only, date and long-text fields, and the options of the fields that
\* refer to other records (here the number of [pk, name] pairs)
Structure(T) ==
  [data |-> DjFields(T),
   required |-> IF T = "A" THEN <<"x">> ELSE <<>>,
   readonly |-> IF T = "A" THEN <<"y">> ELSE <<>>,
   date |-> IF T = "B" THEN <<"y">> ELSE <<>>,
   longtext |-> IF T = "A" THEN <<"y">> ELSE <<>>,
   select_options |-> [f \in (IF T = "A" THEN {"x"} ELSE {}) |-> 6]]

Absent == "absent"                     \* a key the object does not have

NoVals == [f \in AllFields |-> Absent]

UndefinedData == [def |-> FALSE, tag |-> NoType, vals |-> NoVals]

Obj(tag, vals) == [def |-> TRUE, tag |-> tag, vals |-> vals]

EmptyObj == Obj(Absent, NoVals)        \* {}

DjDataArgs ==                          \* djData / newData arguments tried
  {UndefinedData, Obj("A", [NoVals EXCEPT !["x"] = "v"]), Obj("B", NoVals)}

DjInsts == 1..MaxDjInst

NoDjInst ==
  [made |-> FALSE, type |-> NoType, data |-> UndefinedData, element |-> 0,
   rs |-> NoType, carrier |-> UndefinedData]

NoDjEvent == [ev |-> "none", inst |-> 0, threw |-> FALSE]

DjEmpty ==
  [inst         |-> [i \in DjInsts |-> NoDjInst],
   structCache  |-> [T \in DjTypes |-> NoType],   \* type -> type whose structure is stored
   elementCache |-> [T \in DjTypes |-> 0],        \* type -> card id, 0 when none
   cards        |-> <<>>,
   tasks        |-> <<>>,                         \* async calls suspended at an await
   fetches      |-> [T \in DjTypes |-> 0],        \* structure requests issued per type
   ops          |-> 0,
   last         |-> NoDjEvent]

DjIdle == dj = DjEmpty

(***************************************************************************)
(* ModalAlertMJ: buttons, confirm handlers, show / hide                    *)
(***************************************************************************)
ValidBtnNames == <<"acknowledge", "confirm", "cancel">>

Range(q) == {q[k] : k \in 1..Len(q)}

NoAction == [kind |-> "none", rec |-> "none"]
DeleteAction(r) == [kind |-> "deleteRecord", rec |-> r]
ReloadAction == [kind |-> "reload", rec |-> "none"]

\* validBtnNames.splice(validBtnNames.indexOf(btnName), 1)
Splice(names, n) == SelectSeq(names, LAMBDA x : x # n)

RECURSIVE ShowListed(_, _, _, _)
\* update(): buttonTypes.forEach -- show each valid listed button and take its
\* name off validBtnNames; returns the visibility and the names left over
ShowListed(buttonTypes, k, vis, names) ==
  IF k > Len(buttonTypes) THEN [vis |-> vis, names |-> names]
  ELSE IF buttonTypes[k] \in Range(names)
       THEN ShowListed(buttonTypes, k + 1, [vis EXCEPT ![buttonTypes[k]] = TRUE],
                       Splice(names, buttonTypes[k]))
       ELSE ShowListed(buttonTypes, k + 1, vis, names)

UpdateButtons_showOnly(vis, buttonTypes) ==
  ShowListed(buttonTypes, 1, vis, ValidBtnNames).vis

\* update(): the buttons' visibility after both forEach loops
UpdateButtons(vis, buttonTypes) ==
  LET shown == ShowListed(buttonTypes, 1, vis, ValidBtnNames)
  IN [b \in Btns |-> IF b \in Range(shown.names) THEN FALSE ELSE shown.vis[b]]

removeAllHandlers_keep(listeners, handlers) == listeners

\* removeAllHandlers(): removeEventListener for every recorded handler
removeAllHandlers(listeners, handlers) ==
  SelectSeq(listeners, LAMBDA l : l.id \notin Range(handlers))

FreshId(listeners) ==
  CHOOSE i \in 1..(Len(listeners) + 1) : \A k \in 1..Len(listeners) : listeners[k].id # i

\* _addHandler(): addEventListener('click', handler)
addHandler(listeners, action) ==
  Append(listeners, [id |-> FreshId(listeners), kind |-> action.kind, rec |-> action.rec,
                     runs |-> 0, stale |-> FALSE])

removeHandler_listOnly(listeners, handlers, h) ==
  [listeners |-> listeners,
   handlers |-> SelectSeq(handlers, LAMBDA x : x # h)]

\* removeHandler(handler): only a function found in confirmActionHandlers is
\* taken off the confirm button and filtered out of the list; 0 stands for an
\* argument that is no function
removeHandler(listeners, handlers, h) ==
  IF h # 0 /\ h \in Range(handlers)
  THEN [listeners |-> SelectSeq(listeners, LAMBDA l : l.id # h),
        handlers |-> SelectSeq(handlers, LAMBDA x : x # h)]
  ELSE [listeners |-> listeners, handlers |-> handlers]

\* listeners that outlive an update() are from an earlier update()
MarkStale(listeners) ==
  [k \in 1..Len(listeners) |-> [listeners[k] EXCEPT !.stale = TRUE]]

Installs(buttonTypes, action) == action.kind # "none" /\ "confirm" \in Range(buttonTypes)

\* ModalAlertMJ.update({msgKey, message, buttonTypes, confirmAction})
Update(msgKey, message, buttonTypes, action) ==
  LET kept == MarkStale(removeAllHandlers(btnListeners, confirmActionHandlers))
  IN /\ modalBody' = [key |-> msgKey, rec |-> message]
     /\ btnVisible' = UpdateButtons(btnVisible, buttonTypes)
     /\ IF Installs(buttonTypes, action)
        THEN /\ btnListeners' = addHandler(kept, action)
             /\ confirmActionHandlers' = <<FreshId(kept)>>
        ELSE /\ btnListeners' = kept
             /\ confirmActionHandlers' = <<>>

\* ModalMJ.show(): bsModal.show()
Show == modalShown' = TRUE

Hide_noEvent(nav) ==
  /\ modalShown' = FALSE
  /\ hiddenOnce' = hiddenOnce
  /\ navigated' = nav

\* bsModal.hide(), also through a data-bs-dismiss button, Escape or the backdrop:
\* a displayed modal is hidden and fires hidden.bs.modal, whose {once: true}
\* listeners click the prev-page link; `nav` is where the page is otherwise
Hide(nav) ==
  /\ modalShown' = FALSE
  /\ hiddenOnce' = IF modalShown THEN 0 ELSE hiddenOnce
  /\ navigated' = IF nav = "none" /\ modalShown /\ hiddenOnce > 0 THEN "prev-page" ELSE nav

(***************************************************************************)
(* DatatableMJ: per-row delete with confirmation                           *)
(***************************************************************************)
PageAlive == navigated = "none"

\* _initDeleteRecord: click on the delete button of record r (it has a URL)
ClickDelete(r) ==
  /\ PageAlive
  /\ Update("warning_delete", r, <<"confirm", "cancel">>, DeleteAction(r))
  /\ Show
  /\ lastEvent' = "delete"
  /\ warned' = warned \cup {r}
  /\ UNCHANGED <<confirmDismisses, navigated, timers, hiddenOnce, delIssued, delPending,
                 staleInvoked, contVars, formVars, djVars, gridVars>>

\* how many registered listeners send a DELETE for record r
DeletesFor(listeners, r) ==
  Cardinality({k \in 1..Len(listeners) :
                 listeners[k].kind = "deleteRecord" /\ listeners[k].rec = r})

Leaves(listeners) ==
  IF \E k \in 1..Len(listeners) : listeners[k].kind = "reload" THEN "reload"
  ELSE IF \E k \in 1..Len(listeners) : listeners[k].kind = "prevPage" THEN "prev-page"
  ELSE "none"

\* click on the confirm button: every click listener runs; deleteRecord(url)
\* sends the DELETE request, the success handler reloads the page
ClickConfirm ==
  /\ PageAlive
  /\ modalShown /\ btnVisible["confirm"]
  /\ \A k \in 1..Len(btnListeners) : btnListeners[k].runs < MaxRuns
  /\ \A r \in Recs : delIssued[r] + DeletesFor(btnListeners, r) <= MaxDel
  /\ btnListeners' = [k \in 1..Len(btnListeners) |->
                        [btnListeners[k] EXCEPT !.runs = @ + 1]]
  /\ delIssued' = [r \in Recs |-> delIssued[r] + DeletesFor(btnListeners, r)]
  /\ delPending' = [r \in Recs |-> delPending[r] + DeletesFor(btnListeners, r)]
  /\ staleInvoked' = (staleInvoked \/ \E k \in 1..Len(btnListeners) : btnListeners[k].stale)
  /\ IF confirmDismisses
     THEN Hide(Leaves(btnListeners))
     ELSE /\ navigated' = Leaves(btnListeners)
          /\ UNCHANGED <<modalShown, hiddenOnce>>
  /\ lastEvent' = "confirm"
  /\ UNCHANGED <<confirmActionHandlers, btnVisible, modalBody, confirmDismisses, timers,
                 warned, contVars, formVars, djVars, gridVars>>

\* click on the cancel button (data-bs-dismiss), Escape or the backdrop
ClickCancel ==
  /\ PageAlive
  /\ modalShown
  /\ Hide("none")
  /\ lastEvent' = "cancel"
  /\ UNCHANGED <<btnListeners, confirmActionHandlers, btnVisible, modalBody,
                 confirmDismisses, timers, delIssued, delPending, warned, staleInvoked,
                 contVars, formVars, djVars, gridVars>>

\* deleteRecord(): the fetch settles -- response.ok, a failure status, or a
\* network error
DeleteResponse(r, outcome) ==
  /\ PageAlive
  /\ delPending[r] > 0
  /\ delPending' = [delPending EXCEPT ![r] = @ - 1]
  /\ IF outcome = "ok"
     THEN Update("success", "none", <<"confirm">>, ReloadAction)
     ELSE Update("error", "none", <<"acknowledge">>, NoAction)
  /\ lastEvent' = "response"
  /\ UNCHANGED <<modalShown, confirmDismisses, navigated, timers, hiddenOnce, delIssued,
                 warned, staleInvoked, contVars, formVars, djVars, gridVars>>

(***************************************************************************)
(* FormModifyMJ: dirty check against the initial data, submit              *)
(***************************************************************************)
PrevPageAction == [kind |-> "prevPage", rec |-> "none"]

QtyTexts == {"", "a", "5"}

\* what the page can carry as the original value of the text field
QtyOriginals == {Undefined, Null, Str(""), Str("a"), Str("5"), Num("5")}

\* the value an input shows for an original value
Render(j) == IF j.t \in {"string", "number"} THEN j.v ELSE ""

\* new FormData(this.container): a text input always contributes its entry,
\* a checkbox only while it is checked
FormData(f) ==
  <<[key |-> "qty", value |-> f.qty]>>
    \o (IF f.flag THEN <<[key |-> "flag", value |-> "on"]>> ELSE <<>>)

\* JavaScript truthiness of a JSON value
Truthy(j) ==
  CASE j.t = "string" -> j.v # ""
    [] j.t = "number" -> j.v # "0"
    [] OTHER          -> FALSE

\* a !== b
StrictNotEqual(a, b) == a # b

\* (value || originalValue) && value !== originalValue
isModified(value, originalValue) ==
  (Truthy(Str(value)) \/ Truthy(originalValue)) /\ StrictNotEqual(Str(value), originalValue)

\* _dataModified(): the entries of the current FormData reported as modified
dataModified(currentData, original) ==
  {k \in 1..Len(currentData) :
     isModified(currentData[k].value, original[currentData[k].key])}

FormValid == ~(qtyRequired /\ form.qty = "")

\* this.container.checkValidity()
checkValidity(valid) == valid

\* _submit(): click on a submit button
ClickSubmit ==
  /\ PageAlive
  /\ lastEvent' = "submit"
  /\ IF ~checkValidity(FormValid)
     THEN UNCHANGED <<alertVars, posts, postPending>>
     ELSE IF pks # "_new" /\ dataModified(FormData(form), initialData) = {}
          THEN /\ Update("nochange", "none", <<"acknowledge">>, NoAction)
               /\ Show
               /\ UNCHANGED <<confirmDismisses, navigated, timers, hiddenOnce, posts,
                              postPending>>
          ELSE /\ posts < MaxPost
               /\ posts' = posts + 1
               /\ postPending' = postPending + 1
               /\ UNCHANGED alertVars
  /\ UNCHANGED <<pks, initialData, loadedForm, form, qtyRequired,
                 delIssued, delPending, warned, staleInvoked, contVars, djVars, gridVars>>

\* _submit(): the POST settles -- an OK response with its JSON body ("ok"), or
\* the catch handler runs with the message of the error: of a non-OK response
\* the error text of its JSON body ("error"), the status text when the body
\* has none ("status"), the message of the rejected response.json() when the
\* body is no JSON ("notjson"); of a request that failed the message of the
\* rejected fetch ("failed")
PostResponse(outcome) ==
  /\ PageAlive
  /\ postPending > 0
  /\ postPending' = postPending - 1
  /\ IF outcome = "ok"
     THEN /\ timers < MaxTimers
          /\ Update("success", "none", <<"confirm">>, PrevPageAction)
          /\ hiddenOnce' = hiddenOnce + 1
          /\ Show
          /\ timers' = timers + 1
     ELSE /\ Update("error",
                    CASE outcome = "error" -> "errData.error"
                      [] outcome = "status" -> "response.statusText"
                      [] outcome = "notjson" -> "SyntaxError.message"
                      [] OTHER -> "TypeError.message",
                    <<"acknowledge">>, NoAction)
          /\ Show
          /\ UNCHANGED <<timers, hiddenOnce>>
  /\ lastEvent' = "response"
  /\ UNCHANGED <<confirmDismisses, navigated, pks, initialData, loadedForm, form,
                 qtyRequired, posts, delIssued, delPending, warned, staleInvoked, contVars, djVars, gridVars>>

\* the user edits the text field
EditQty(v) ==
  /\ PageAlive
  /\ ~modalShown
  /\ v # form.qty
  /\ form' = [form EXCEPT !.qty = v]
  /\ lastEvent' = "edit"
  /\ UNCHANGED <<pks, initialData, loadedForm, qtyRequired, posts, postPending,
                 alertVars, delIssued, delPending, warned, staleInvoked, contVars, djVars, gridVars>>

\* the user toggles the checkbox
ToggleFlag ==
  /\ PageAlive
  /\ ~modalShown
  /\ form' = [form EXCEPT !.flag = ~form.flag]
  /\ lastEvent' = "edit"
  /\ UNCHANGED <<pks, initialData, loadedForm, qtyRequired, posts, postPending,
                 alertVars, delIssued, delPending, warned, staleInvoked, contVars, djVars, gridVars>>

\* ModalMJ.show(timeout): the timer set by setTimeout fires and calls hide()
TimerFire ==
  /\ PageAlive
  /\ timers > 0
  /\ timers' = timers - 1
  /\ Hide("none")
  /\ lastEvent' = "timer"
  /\ UNCHANGED <<btnListeners, confirmActionHandlers, btnVisible, modalBody,
                 confirmDismisses, delIssued, delPending, warned, staleInvoked,
                 contVars, formVars, djVars, gridVars>>

\* buttonTypes arrays of callers: any names, unknown ones and repeats included
BtnNames == Btns \cup {"close"}

ButtonLists ==
  UNION {[1..n -> BtnNames] : n \in 0..MaxListed} \cup {ValidBtnNames}

\* the timeouts callers pass to show(): none (0) or 3000 ms
Timeouts == {0, 3000}

ShowTimeout_always(timeout) ==
  /\ Show
  /\ timers' = timers + 1

\* ModalMJ.show(timeout = 0): bsModal.show(), and setTimeout(() => this.hide(), timeout)
\* only when timeout > 0
ShowTimeout(timeout) ==
  /\ Show
  /\ timers' = IF timeout > 0 THEN timers + 1 ELSE timers

\* some caller runs modalAlert.update({msgKey, buttonTypes, confirmAction})
AlertUpdate(msgKey, buttonTypes, action) ==
  /\ PageAlive
  /\ Update(msgKey, "none", buttonTypes, action)
  /\ lastEvent' = "update"
  /\ UNCHANGED <<modalShown, confirmDismisses, navigated, timers, hiddenOnce, delIssued,
                 delPending, warned, staleInvoked, contVars, formVars, djVars, gridVars>>

\* some caller runs modalAlert.show(timeout)
AlertShow(timeout) ==
  /\ PageAlive
  /\ timeout > 0 => timers < MaxTimers
  /\ ShowTimeout(timeout)
  /\ lastEvent' = "show"
  /\ UNCHANGED <<btnListeners, confirmActionHandlers, btnVisible, modalBody,
                 confirmDismisses, navigated, hiddenOnce, delIssued, delPending, warned,
                 staleInvoked, contVars, formVars, djVars, gridVars>>

\* some caller runs modalAlert.removeHandler(handler): with the installed
\* handler (1), with a function that was never installed (2), with null (0)
AlertRemoveHandler(h) ==
  /\ PageAlive
  /\ LET r == removeHandler(btnListeners, confirmActionHandlers, h)
     IN /\ btnListeners' = r.listeners
        /\ confirmActionHandlers' = r.handlers
  /\ lastEvent' = "removeHandler"
  /\ UNCHANGED <<btnVisible, modalBody, modalShown, confirmDismisses, navigated, timers,
                 hiddenOnce, delIssued, delPending, warned, staleInvoked, contVars,
                 formVars, djVars, gridVars>>

\* some caller runs modalAlert.removeAllHandlers()
AlertRemoveAllHandlers ==
  /\ PageAlive
  /\ btnListeners' = removeAllHandlers(btnListeners, confirmActionHandlers)
  /\ confirmActionHandlers' = <<>>
  /\ lastEvent' = "removeAllHandlers"
  /\ UNCHANGED <<btnVisible, modalBody, modalShown, confirmDismisses, navigated, timers,
                 hiddenOnce, delIssued, delPending, warned, staleInvoked, contVars,
                 formVars, djVars, gridVars>>

(***************************************************************************)
(* ContainerMJ: classes, phase methods and cooperative super chaining      *)
(***************************************************************************)
Phases == <<"_initArgs", "_findElements", "_initProperties", "_initFunctions">>

ConcreteClasses == {"SelectpickerMJ", "ModalAlertMJ", "ModalDatatableConfig"}

Parent(cls) ==
  CASE cls = "SelectpickerMJ"       -> "ContainerMJ"
    [] cls = "ModalAlertMJ"         -> "ModalMJ"
    [] cls = "ModalDatatableConfig" -> "ModalMJ"
    [] cls = "ModalMJ"              -> "ContainerMJ"
    [] cls = "ContainerMJ"          -> "BaseMJ"
    [] OTHER                        -> "none"

\* BaseMJ (base-mj.js): the lifecycle's base class either declares the four
\* phase methods as overridable no-ops or leaves them to the subclasses
BaseMJDefines(hasBase) ==
  IF hasBase THEN {"_initArgs", "_findElements", "_initProperties", "_initFunctions"} ELSE {}

\* the phase methods each class body defines
Defines(cls, hasBase) ==
  CASE cls = "SelectpickerMJ"       -> {"_findElements", "_initFunctions"}
    [] cls = "ModalAlertMJ"         -> {"_findElements", "_initProperties"}
    [] cls = "ModalDatatableConfig" -> {"_initArgs", "_findElements", "_initProperties", "_initFunctions"}
    [] cls = "ModalMJ"              -> {"_findElements", "_initFunctions"}
    [] cls = "ContainerMJ"          -> {"_initArgs"}
    [] cls = "BaseMJ"               -> BaseMJDefines(hasBase)
    [] OTHER                        -> {}

\* the super call a method body makes: `super.<guard> && super.<call>(...)`;
\* guard "always" is an unguarded call, call "none" is no super call
SuperCallStd(cls, m) ==
  CASE cls = "ContainerMJ" -> [guard |-> "always", call |-> "none"]
    [] cls = "BaseMJ"      -> [guard |-> "always", call |-> "none"]
    [] cls = "ModalDatatableConfig" /\ m = "_initArgs" -> [guard |-> "always", call |-> m]
    [] OTHER               -> [guard |-> m, call |-> m]

SuperCall(cls, m) ==
  IF cls = "ModalDatatableConfig" /\ m = "_initProperties"
  THEN [guard |-> "_initProperties", call |-> "_initFunctions"]
  ELSE SuperCallStd(cls, m)

RECURSIVE Resolve(_, _, _)
\* method lookup along the prototype chain starting at cls
Resolve(cls, m, hasBase) ==
  IF cls = "none" THEN "none"
  ELSE IF m \in Defines(cls, hasBase) THEN cls
  ELSE Resolve(Parent(cls), m, hasBase)

RECURSIVE Run(_, _, _, _)
\* the method bodies executed by running method m of class cls during `phase`
Run(cls, m, phase, hasBase) ==
  LET sc  == SuperCall(cls, m)
      me  == <<[phase |-> phase, cls |-> cls, method |-> m]>>
      tgt == IF sc.call = "none" THEN "none"
             ELSE IF sc.guard = "always" \/ Resolve(Parent(cls), sc.guard, hasBase) # "none"
                  THEN Resolve(Parent(cls), sc.call, hasBase)
                  ELSE "none"
  IN IF tgt = "none" THEN me ELSE me \o Run(tgt, sc.call, phase, hasBase)

RECURSIVE RunPhases(_, _, _)
\* BaseMJ constructor: the four phases in their fixed order
RunPhases(cls, k, hasBase) ==
  IF k > Len(Phases) THEN <<>>
  ELSE LET tgt == Resolve(cls, Phases[k], hasBase)
       IN (IF tgt = "none" THEN <<>> ELSE Run(tgt, Phases[k], Phases[k], hasBase))
          \o RunPhases(cls, k + 1, hasBase)

ConstructTrace(cls, hasBase) == RunPhases(cls, 1, hasBase)

IsSubclass(c, d) ==
  \/ c = d
  \/ Parent(c) = d
  \/ Parent(Parent(c)) = d
  \/ Parent(Parent(Parent(c))) = d

InstIds == 1..Len(instances)

Args == {ElemArg(e) : e \in Elems} \cup {NoMatch} \cup {InstArg(i) : i \in InstIds}

\* utils-mj.js getElement, for a non-document argument: the element or "none" (null)
getElement(arg) == IF arg.kind = "elem" THEN arg.elem ELSE "none"

\* ContainerMJ._initArgs: this.container.__containerMJInstance = this
initArgsStore(dom, e, id) == [dom EXCEPT ![e] = id]

getInstance_nocache(cls, arg, insts, dom) ==
  IF arg.kind = "inst" /\ IsSubclass(insts[arg.inst].cls, cls) THEN arg.inst
  ELSE 0

\* ContainerMJ.getInstance: instance id, or 0 for null
getInstance(cls, arg, insts, dom) ==
  IF arg.kind = "inst" /\ IsSubclass(insts[arg.inst].cls, cls) THEN arg.inst
  ELSE IF getElement(arg) # "none" THEN dom[getElement(arg)]
  ELSE 0

CachedAt(arg) == IF arg.kind = "elem" THEN domInstance[arg.elem] ELSE 0

Call(op, cls, arg, ret) ==
  [op |-> op, cls |-> cls, arg |-> arg, ret |-> ret,
   nBefore |-> Len(instances), cachedBefore |-> CachedAt(arg)]

\* getValidElement / getValidElements as _findElements of cls calls them on
\* container e: whether every required element is found. Element e2 is a
\* modal without the buttons of an alert
getValidElement(e, cls) == ~(e = "e2" /\ cls = "ModalAlertMJ")

\* `new cls(arg)`: BaseMJ constructor running the phases; ContainerMJ._initArgs
\* throws InstanceError when the container does not resolve to an element,
\* _findElements throws it when a required element is missing, after _initArgs
\* has stored the object under construction on the container
Construct(op, cls, arg) ==
  LET e  == getElement(arg)
      id == Len(instances) + 1
      found == getValidElement(e, cls)
      full == ConstructTrace(cls, baseHasPhases)
      trace == IF found THEN full
               ELSE SelectSeq(full, LAMBDA t : t.phase \in {"_initArgs", "_findElements"})
  IN IF e = "none"
     THEN /\ lastCall' = Call(op, cls, arg, Throw("InstanceError"))
          /\ UNCHANGED <<instances, domInstance>>
     ELSE /\ instances' = Append(instances,
                 [cls |-> cls, elem |-> e, trace |-> trace, complete |-> found])
          /\ domInstance' = initArgsStore(domInstance, e, id)
          /\ lastCall' = Call(op, cls, arg,
                              IF found THEN RetInst(id) ELSE Throw("InstanceError"))

New(cls, arg) ==
  /\ Len(instances) < MaxInst
  /\ Construct("new", cls, arg)
  /\ UNCHANGED <<baseHasPhases, alertVars, tableVars, formVars, djVars, gridVars>>

GetInstance(cls, arg) ==
  /\ LET got == getInstance(cls, arg, instances, domInstance)
     IN lastCall' = Call("getInstance", cls, arg, IF got = 0 THEN RetNull ELSE RetInst(got))
  /\ UNCHANGED <<instances, domInstance, baseHasPhases, alertVars, tableVars, formVars, djVars, gridVars>>

GetOrCreateInstance(cls, arg) ==
  /\ \/ Len(instances) < MaxInst
     \/ arg = NullArg
     \/ getInstance(cls, arg, instances, domInstance) # 0
  /\ IF arg = NullArg
     THEN /\ lastCall' = Call("getOrCreateInstance", cls, arg, Throw("TypeError"))
          /\ UNCHANGED <<instances, domInstance>>
     ELSE LET got == getInstance(cls, arg, instances, domInstance)
          IN IF got # 0
             THEN /\ lastCall' = Call("getOrCreateInstance", cls, arg, RetInst(got))
                  /\ UNCHANGED <<instances, domInstance>>
             ELSE Construct("getOrCreateInstance", cls, arg)
  /\ UNCHANGED <<baseHasPhases, alertVars, tableVars, formVars, djVars, gridVars>>

(***************************************************************************)
(* DatajsonMJ: type / data, structure and card caches, async rendering     *)
(***************************************************************************)
\* _load: parse the data, take the type from it (or from djType when there is
\* none); on a mismatch the type is already assigned when the error is thrown
\* and swallowed, and this.data keeps its previous value
load(inst, djType, djData) ==
  IF ~djData.def
  THEN [inst EXCEPT !.data = Obj(djType, NoVals), !.type = djType]
  ELSE LET dataType == IF djData.tag = Absent THEN NoType ELSE djData.tag
       IN IF djType # NoType /\ djType # dataType
          THEN [inst EXCEPT !.type = dataType]
          ELSE [inst EXCEPT !.type = dataType, !.data = djData]

Task(i, kind, pc, wait, next, fetchT, st, card, k, pfx, val) ==
  [inst |-> i, kind |-> kind, pc |-> pc, wait |-> wait, next |-> next,
   fetchT |-> fetchT, st |-> st, card |-> card, k |-> k, pfx |-> pfx, val |-> val]

Push(s, t) == [s EXCEPT !.tasks = Append(@, t)]

\* getRenderStructure up to its first await: a falsy type and a cached
\* structure resolve at once, otherwise a request goes out
getRenderStructure(s, i, kind, next, card) ==
  LET T == s.inst[i].type
  IN IF T = NoType
     THEN Push(s, Task(i, kind, "struct", "micro", next, T, NoType, card, 0, "", ""))
     ELSE IF s.structCache[T] # NoType
          THEN Push(s, Task(i, kind, "struct", "micro", next, T, s.structCache[T],
                            card, 0, "", ""))
          ELSE Push([s EXCEPT !.fetches[T] = @ + 1],
                    Task(i, kind, "struct", "net", next, T, NoType, card, 0, "", ""))

NewCard(i) ==
  [schema |-> NoType, owner |-> i, prefix |-> <<>>, value |-> <<>>,
   attached |-> FALSE, display |-> ""]

\* getOrCreateDOMElement up to its first await
getOrCreateDOMElement(s, i, kind) ==
  LET T == s.inst[i].type
  IN IF T # NoType /\ s.elementCache[T] # 0
     THEN Push([s EXCEPT !.inst[i].rs = s.structCache[T]],
               Task(i, kind, "elem", "micro", "", T, NoType, s.elementCache[T], 0, "", ""))
     ELSE getRenderStructure([s EXCEPT !.cards = Append(@, NewCard(i))],
                             i, kind, "dom", Len(s.cards) + 1)

\* the body of the field loop of getOrCreateDOMElement for one key: the kind of
\* input created and its marks. `key in list` is JavaScript's in operator on
\* an array, which tests the array's own property names (its indices and
\* "length"), where list.includes(key) tests its elements
inputElement(structure, key) ==
  LET In(list) == key \in {ToString(k - 1) : k \in 1..Len(list)} \cup {"length"}
      Includes(list) == \E k \in 1..Len(list) : list[k] = key
      kind == IF Includes(structure.date) THEN "date"
              ELSE IF key \in DOMAIN structure.select_options THEN "select"
              ELSE IF In(structure.longtext) THEN "textarea"
              ELSE "text"
  IN [kind |-> kind,
      selectpicker |-> kind = "select" /\ structure.select_options[key] > 5,
      asterisk |-> Includes(structure.required),
      readOnly |-> In(structure.readonly),
      required |-> In(structure.required)]

SetElementCache(s, T, c) ==
  IF T \in DjTypes THEN [s EXCEPT !.elementCache[T] = c] ELSE s

\* one turn of the field loop of getOrCreateDOMElement: the id prefix and the
\* value are read before the translation request is awaited
fieldLoop(s, t, k) ==
  LET inst == s.inst[t.inst]
      keys == DjFields(t.st)
  IN IF t.st = NoType THEN s
     ELSE IF k > Len(keys)
          THEN Push([SetElementCache(s, inst.type, t.card)
                       EXCEPT !.cards[t.card].attached = TRUE,
                              !.inst[t.inst].rs = t.st],
                    Task(t.inst, t.kind, "elem", "micro", "", t.fetchT, t.st, t.card,
                         0, "", ""))
          ELSE IF ~inst.data.def THEN s
               ELSE Push(s, Task(t.inst, t.kind, "field", "net", "", t.fetchT, t.st,
                                 t.card, k, inst.type,
                                 IF inst.data.vals[keys[k]] = Absent THEN ""
                                 ELSE inst.data.vals[keys[k]]))

FindInput(s, c, type, key, uid) ==
  IF c = 0 THEN 0
  ELSE LET card == s.cards[c]
           hits == {n \in 1..Len(card.prefix) :
                      /\ DjFields(card.schema)[n] = key
                      /\ card.prefix[n] = type
                      /\ card.owner = uid}
       IN IF hits = {} THEN 0 ELSE CHOOSE n \in hits : TRUE

reRender(s, i) ==
  LET inst == s.inst[i]
  IN IF ~inst.data.def THEN [s |-> s, threw |-> FALSE]
     ELSE IF inst.element = 0 THEN [s |-> s, threw |-> TRUE]
     ELSE LET card == s.cards[inst.element]
              key(n) == DjFields(card.schema)[n]
          IN [s |-> [s EXCEPT !.cards[inst.element].value =
                       [n \in 1..Len(card.value) |->
                          IF /\ FindInput(s, inst.element, inst.type, key(n), i) = n
                             /\ inst.data.vals[key(n)] # Absent
                          THEN inst.data.vals[key(n)] ELSE card.value[n]]],
              threw |-> FALSE]

RECURSIVE getDataFrom(_, _, _)
getDataFrom(s, i, k) ==
  LET inst == s.inst[i]
      keys == DjFields(inst.rs)
  IN IF k > Len(keys) THEN [s |-> s, threw |-> FALSE]
     ELSE LET n == FindInput(s, inst.element, inst.type, keys[k], i)
          IN IF n = 0 \/ ~inst.data.def THEN [s |-> s, threw |-> TRUE]
             ELSE LET v == s.cards[inst.element].value[n]
                  IN getDataFrom([s EXCEPT !.inst[i].data.vals[keys[k]] =
                                              IF v = "" THEN Absent ELSE v], i, k + 1)

getData(s, i) ==
  IF s.inst[i].rs = NoType
  THEN [s |-> s, threw |-> FALSE, result |-> EmptyObj]
  ELSE LET r == getDataFrom(s, i, 1)
       IN [s |-> r.s, threw |-> r.threw, result |-> r.s.inst[i].data]

\* the tail of update(): reRender, then the carrier takes the data
updateTail(s, i) ==
  LET r == reRender(s, i)
  IN IF r.threw THEN [r.s EXCEPT !.last = [ev |-> "update", inst |-> i, threw |-> TRUE]]
     ELSE [r.s EXCEPT !.inst[i].carrier = r.s.inst[i].data,
                      !.last = [ev |-> "update", inst |-> i, threw |-> FALSE]]

Without(q, n) == SubSeq(q, 1, n - 1) \o SubSeq(q, n + 1, Len(q))

MicroPending(s) == \E n \in 1..Len(s.tasks) : s.tasks[n].wait = "micro"

FirstMicro(s) ==
  CHOOSE n \in 1..Len(s.tasks) :
    /\ s.tasks[n].wait = "micro"
    /\ \A m \in 1..(n - 1) : s.tasks[m].wait # "micro"

DjBounded(s) ==
  /\ Len(s.cards) <= MaxCards
  /\ Len(s.tasks) <= MaxTasks
  /\ \A T \in DjTypes : s.fetches[T] <= MaxFetch
  /\ s.ops <= MaxDjOps

Event(s, ev, i) == [s EXCEPT !.ops = @ + 1, !.last = [ev |-> ev, inst |-> i, threw |-> FALSE]]

\* new DatajsonMJ(container, targetElement, djType, djData), as the modify form
\* issues it for each datajson field in one synchronous loop
DjConstruct(i, djType, djData) ==
  /\ ~dj.inst[i].made
  /\ \A j \in 1..(i - 1) : dj.inst[j].made
  /\ LET loaded == load([NoDjInst EXCEPT !.made = TRUE, !.carrier = djData], djType, djData)
         s1 == Event([dj EXCEPT !.inst[i] = loaded], "construct", i)
         s2 == IF loaded.type # NoType
               THEN getRenderStructure(s1, i, "init", "init", 0)
               ELSE s1
     IN /\ DjBounded(s2)
        /\ dj' = s2
  /\ UNCHANGED <<contVars, alertVars, tableVars, formVars, gridVars>>

\* update(newType, newData) up to its await
DjUpdate(i, newType, newData) ==
  /\ dj.inst[i].made
  /\ ~MicroPending(dj)
  /\ LET old == dj.inst[i]
         s1 == Event([dj EXCEPT !.inst[i] = load(old, newType, newData)], "update", i)
         new == s1.inst[i]
         s2 == IF new.type = old.type THEN updateTail(s1, i)
               ELSE IF old.type # NoType /\ old.element = 0
                    THEN [s1 EXCEPT !.last.threw = TRUE]
                    ELSE LET s1a == IF old.type # NoType
                                    THEN [SetElementCache(s1, old.type, old.element)
                                            EXCEPT !.cards[old.element].display = "none"]
                                    ELSE s1
                         IN IF new.type = NoType
                            THEN updateTail([s1a EXCEPT !.inst[i].rs = NoType], i)
                            ELSE getOrCreateDOMElement(s1a, i, "update")
     IN /\ DjBounded(s2)
        /\ dj' = s2
  /\ UNCHANGED <<contVars, alertVars, tableVars, formVars, gridVars>>

\* update() with no argument, or with a null type: newType === null holds, so
\* the guard goes on to read djData, a name declared nowhere (the parameter
\* is newData); the read throws a ReferenceError before anything is changed
\* and the promise of the async function rejects
DjUpdateNull(i) ==
  /\ dj.inst[i].made
  /\ ~MicroPending(dj)
  /\ LET s1 == [Event(dj, "updateNull", i) EXCEPT !.last.threw = TRUE]
     IN /\ DjBounded(s1)
        /\ dj' = s1
  /\ UNCHANGED <<contVars, alertVars, tableVars, formVars, gridVars>>

\* a suspended async call continues: a structure arrives (or the request
\* fails), a translation arrives, or an awaited card is handed to the caller
Continue(s0, t, ok) ==
  LET i == t.inst
      cur == s0.inst[i].type
  IN IF t.pc = "struct"
     THEN IF ~ok THEN s0
          ELSE LET S == IF t.wait = "net" THEN t.fetchT ELSE t.st
                   s1 == IF t.wait = "net" /\ cur \in DjTypes
                         THEN [s0 EXCEPT !.structCache[cur] = S] ELSE s0
               IN IF t.next = "init"
                  THEN getOrCreateDOMElement([s1 EXCEPT !.inst[i].rs = S], i, "init")
                  ELSE fieldLoop([s1 EXCEPT !.cards[t.card].schema = S],
                                 [t EXCEPT !.st = S], 1)
     ELSE IF t.pc = "field"
     THEN fieldLoop([s0 EXCEPT !.cards[t.card].prefix = Append(@, t.pfx),
                               !.cards[t.card].value = Append(@, t.val)],
                    t, t.k + 1)
     ELSE IF t.kind = "init"
          THEN [SetElementCache(s0, cur, t.card) EXCEPT !.inst[i].element = t.card]
          ELSE updateTail([s0 EXCEPT !.inst[i].element = t.card,
                                     !.cards[t.card].display = "block"], i)

DjResume(n, ok) ==
  /\ n \in 1..Len(dj.tasks)
  /\ LET t == dj.tasks[n]
     IN /\ IF MicroPending(dj) THEN n = FirstMicro(dj) ELSE TRUE
        /\ ok \/ (t.pc = "struct" /\ t.wait = "net")
        /\ LET s1 == Continue([dj EXCEPT !.tasks = Without(@, n),
                                         !.last = [ev |-> "resume", inst |-> t.inst,
                                                   threw |-> FALSE]], t, ok)
           IN /\ DjBounded(s1)
              /\ dj' = s1
  /\ UNCHANGED <<contVars, alertVars, tableVars, formVars, gridVars>>

\* the user edits input n of card c; its change listener writes
\* JSON.stringify(this.getData()) of the instance that built the card
DjChange(c, n, v) ==
  /\ c \in 1..Len(dj.cards)
  /\ ~MicroPending(dj)
  /\ LET card == dj.cards[c]
     IN /\ card.attached
        /\ card.display # "none"
        /\ n \in 1..Len(card.value)
        /\ card.value[n] # v
        /\ LET s1 == Event([dj EXCEPT !.cards[c].value[n] = v], "change", card.owner)
               r == getData(s1, card.owner)
               s2 == IF r.threw THEN [r.s EXCEPT !.last.threw = TRUE]
                     ELSE [r.s EXCEPT !.inst[card.owner].carrier = r.result]
           IN /\ DjBounded(s2)
              /\ dj' = s2
  /\ UNCHANGED <<contVars, alertVars, tableVars, formVars, gridVars>>


(***************************************************************************)
(* DatatableMJ: table rows and columns, search, sorting, CSV export;       *)
(* ModalDatatableConfig: the column list, its snapshots and save           *)
(***************************************************************************)
\* the data columns in template order (data-dbman-sn = loop.index), and the two
\* cells in front of them in every row: the checkbox cell and the Actions cell
DataCols == <<1, 2>>

Cols == Range(DataCols)

FrontCells == <<-1, 0>>

\* the texts of the header cells and of each record's data cells, as characters
HeaderText == <<<<"N", "a">>, <<"Q">>>>

TextTable ==
  [r \in Recs |-> IF r = "r1" THEN <<<<"A", "b">>, <<"1", "0">>>>
                               ELSE <<<<"b">>, <<"9">>>>]

\* for a table of three records to sort and export: the texts the first data
\* cell of a record may hold (numbers, texts that are no numbers, ISO dates,
\* texts with the characters CSV treats specially)
CellTexts ==
  {<<>>, <<"3">>, <<"1", "0">>, <<",", "5">>, <<"$", "7">>,
   <<"2", "0", "2", "4", "-", "0", "1", "-", "0", "9">>,
   <<"2", "0", "2", "3", "-", "1", "0", "-", "0", "1">>,
   <<"b", ",", "a">>, <<"a", "\"">>, <<"a", "\n", "b">>, <<"a", "\r", "b">>}

\* what the user types into the search box
Queries == {<<>>, <<"a">>, <<"B">>, <<"z">>}

\* the page as the template renders it for the records `rows` with the cell
\* texts `text` and the constructors leave it; `checks` are the checkbox states
\* of the config list's items
GridWith(rows, text, checks) ==
  LET recs == Range(rows)
      items == [k \in 1..Len(DataCols) |-> [sn |-> DataCols[k], checked |-> checks[k]]]
  IN [head |-> FrontCells \o DataCols,
      thHidden |-> [c \in Cols |-> FALSE],
      rows |-> rows,
      text |-> text,
      cells |-> [r \in recs |-> FrontCells \o DataCols],
      tdHidden |-> [r \in recs |-> [c \in Cols |-> FALSE]],
      rowHidden |-> [r \in recs |-> FALSE],
      checked |-> [r \in recs |-> FALSE],
      checkAll |-> FALSE,
      input |-> <<>>,
      curSearchQuery |-> <<>>,
      noFilterHidden |-> TRUE,
      sortOrder |-> [c \in Cols |-> ""],
      list |-> items,
      listOriginalStates |-> items,
      listInitialStates |-> <<>>,
      saveChanges |-> FALSE,
      shown |-> FALSE,
      download |-> <<>>,
      \* history: the last event, and the list when the modal was constructed,
      \* last shown and last saved
      ev |-> "none", atBuild |-> items, atShow |-> <<>>, atSave |-> <<>>,
      \* whether the last closing without saving had changes of the list to undo
      undone |-> FALSE]

\* the page of the two records of TextTable
GridLoaded(checks) == GridWith(<<"r1", "r2">>, TextTable, checks)

GridIdle == grid = GridLoaded([k \in 1..Len(DataCols) |-> TRUE])

toLowerCase_asIs(t) == t

\* String.prototype.toLowerCase
toLowerCase(t) ==
  [k \in 1..Len(t) |-> CASE t[k] = "A" -> "a" [] t[k] = "B" -> "b" [] t[k] = "N" -> "n"
                         [] t[k] = "Q" -> "q" [] OTHER -> t[k]]

\* String.prototype.includes
includes(t, q) == \E i \in 0..(Len(t) - Len(q)) : SubSeq(t, i + 1, i + Len(q)) = q

RECURSIVE trim(_)
\* String.prototype.trim: white space and line terminators go from both ends
trim(t) ==
  IF t = <<>> THEN t
  ELSE IF Head(t) \in {" ", "\n", "\r"} THEN trim(Tail(t))
  ELSE IF t[Len(t)] \in {" ", "\n", "\r"} THEN trim(SubSeq(t, 1, Len(t) - 1))
  ELSE t

\* the data cells of a row or of the header row, in DOM order
DataCells(cellSeq) == SelectSeq(cellSeq, LAMBDA c : c \in Cols)

checkItemChange_some(s) == [s EXCEPT !.checkAll = \E r \in DOMAIN s.text : s.checked[r]]

\* _initCheckItems(): a row checkbox changed
checkItemChange(s) == [s EXCEPT !.checkAll = \A r \in DOMAIN s.text : s.checked[r]]

\* _initSearch(): click on the search button
searchClick(s) ==
  LET searchText == s.input
      match(r) == \/ searchText = <<>>
                  \/ \E k \in 1..Len(DataCells(s.cells[r])) :
                       includes(toLowerCase(s.text[r][DataCells(s.cells[r])[k]]),
                                toLowerCase(searchText))
      s1 == IF searchText # s.curSearchQuery
            THEN [s EXCEPT !.rowHidden = [r \in DOMAIN s.text |-> ~match(r)],
                           !.curSearchQuery = searchText]
            ELSE s
  IN [s1 EXCEPT !.noFilterHidden = (s1.curSearchQuery = <<>>)]

\* String.prototype.localeCompare: the sign; characters in collation order
\* (white space, punctuation, symbols, digits, letters with the lower case
\* first), letters compare without case first, the case breaks ties
localeCompare(a, b) ==
  LET collation == <<"\n", "\r", " ", "-", ",", "\"", "$",
                     "0", "1", "2", "3", "4", "5", "6", "7", "8", "9",
                     "a", "A", "b", "B", "n", "N", "q", "Q", "z">>
      rank(ch) == CHOOSE k \in 1..Len(collation) : collation[k] = ch
      RECURSIVE lexLess(_, _)
      lexLess(x, y) ==
        IF y = <<>> THEN FALSE
        ELSE IF x = <<>> THEN TRUE
        ELSE IF Head(x) # Head(y) THEN rank(Head(x)) < rank(Head(y))
        ELSE lexLess(Tail(x), Tail(y))
  IN IF a = b THEN 0
     ELSE IF toLowerCase(a) # toLowerCase(b)
          THEN (IF lexLess(toLowerCase(a), toLowerCase(b)) THEN -1 ELSE 1)
          ELSE (IF lexLess(a, b) THEN -1 ELSE 1)

\* parseFloat(val.replace(/,/g, '')) for texts without point and exponent: <<n>>
\* for the number n that the optional sign and the leading digits spell, <<>>
\* for NaN when there are no leading digits
parseFloat(t) ==
  LET digits == <<"0", "1", "2", "3", "4", "5", "6", "7", "8", "9">>
      isDigit(ch) == \E d \in 1..10 : digits[d] = ch
      value(ch) == (CHOOSE d \in 1..10 : digits[d] = ch) - 1
      u == SelectSeq(t, LAMBDA ch : ch # ",")
      signed == u # <<>> /\ Head(u) \in {"+", "-"}
      v == IF signed THEN Tail(u) ELSE u
      RECURSIVE number(_, _)
      number(w, acc) ==
        IF w = <<>> \/ ~isDigit(Head(w)) THEN acc
        ELSE number(Tail(w), <<(IF acc = <<>> THEN 0 ELSE acc[1] * 10) + value(Head(w))>>)
      n == number(v, <<>>)
  IN IF n = <<>> THEN <<>>
     ELSE IF signed /\ Head(u) = "-" THEN <<0 - n[1]>> ELSE n

\* _initSorting(): the comparator of rows.sort for column c, as a sign
compare(s, a, b, c, newSort) ==
  LET valA == trim(s.text[a][c])
      valB == trim(s.text[b][c])
      iso(v) == /\ Len(v) = 10
                /\ v[5] = "-" /\ v[8] = "-"
                /\ \A k \in {1, 2, 3, 4, 6, 7, 9, 10} : parseFloat(<<v[k]>>) # <<>>
      numA == parseFloat(valA)
      numB == parseFloat(valB)
      sign(n) == IF n < 0 THEN -1 ELSE IF n > 0 THEN 1 ELSE 0
      asc == IF iso(valA) /\ iso(valB) THEN localeCompare(valA, valB)
             ELSE IF numA # <<>> /\ numB # <<>> THEN sign(numA[1] - numB[1])
             ELSE localeCompare(valA, valB)
  IN IF newSort = "asc" THEN asc ELSE -asc

sortRows_firstOnly(s, c, newSort) == {[k \in 1..Len(s.rows) |-> s.rows[1]]}

\* Array.prototype.sort (stable) of the body rows: the orders rows.sort may
\* produce -- the one sorted order that keeps ties in place; any order when the
\* comparator is inconsistent and no such order exists
sortRows(s, c, newSort) ==
  LET rows == s.rows
      n == Len(rows)
      pos(r) == CHOOSE k \in 1..n : rows[k] = r
      perms == {p \in [1..n -> Range(rows)] : \A i, j \in 1..n : p[i] = p[j] => i = j}
      sorted == {p \in perms : \A i, j \in 1..n :
                   i < j => \/ compare(s, p[i], p[j], c, newSort) < 0
                            \/ /\ compare(s, p[i], p[j], c, newSort) = 0
                               /\ pos(p[i]) < pos(p[j])}
  IN IF sorted # {} THEN sorted ELSE perms

RECURSIVE restoreListStates_inPlace(_, _, _)
restoreListStates_inPlace(list, listStates, k) ==
  IF k > Len(listStates) THEN list
  ELSE restoreListStates_inPlace(
         [i \in 1..Len(list) |-> IF list[i].sn = listStates[k].sn
                                 THEN [list[i] EXCEPT !.checked = listStates[k].checked]
                                 ELSE list[i]],
         listStates, k + 1)

RECURSIVE restoreListStates_orderOnly(_, _, _)
restoreListStates_orderOnly(list, listStates, k) ==
  IF k > Len(listStates) THEN list
  ELSE restoreListStates_orderOnly(
         SelectSeq(list, LAMBDA li : li.sn # listStates[k].sn)
           \o SelectSeq(list, LAMBDA li : li.sn = listStates[k].sn),
         listStates, k + 1)

RECURSIVE restoreListStates(_, _, _)
\* _restoreListStates(listStates): each state's item gets its checked state and
\* is appended to the list
restoreListStates(list, listStates, k) ==
  IF k > Len(listStates) THEN list
  ELSE restoreListStates(
         Append(SelectSeq(list, LAMBDA li : li.sn # listStates[k].sn),
                [sn |-> listStates[k].sn, checked |-> listStates[k].checked]),
         listStates, k + 1)

extraHandlerRestoreInitialStates_always(s) ==
  [s EXCEPT !.list = restoreListStates(s.list, s.listInitialStates, 1)]

\* _extraHandlerRestoreInitialStates(): the handler of hide.bs.modal
extraHandlerRestoreInitialStates(s) ==
  IF s.saveChanges THEN [s EXCEPT !.saveChanges = FALSE]
  ELSE [s EXCEPT !.list = restoreListStates(s.list, s.listInitialStates, 1)]

\* ModalMJ.hide(), a dismiss button, Escape or the backdrop: hide.bs.modal is
\* dispatched, then the modal is hidden
hideConfig(s) == [extraHandlerRestoreInitialStates(s) EXCEPT !.shown = FALSE]

RECURSIVE saveColumns_headOnly(_, _)
saveColumns_headOnly(s, k) ==
  IF k > Len(s.list) THEN s
  ELSE LET c == s.list[k].sn
       IN saveColumns_headOnly(
            [s EXCEPT !.head = Append(SelectSeq(@, LAMBDA x : x # c), c),
                      !.thHidden[c] = ~s.list[k].checked,
                      !.tdHidden = [r \in DOMAIN s.text |-> [@[r] EXCEPT ![c] = ~s.list[k].checked]]],
            k + 1)

RECURSIVE saveColumns_showOnly(_, _)
saveColumns_showOnly(s, k) ==
  IF k > Len(s.list) THEN s
  ELSE LET c == s.list[k].sn
           moved(cellSeq) == Append(SelectSeq(cellSeq, LAMBDA x : x # c), c)
       IN saveColumns_showOnly(
            [s EXCEPT !.head = moved(@),
                      !.cells = [r \in DOMAIN s.text |-> moved(@[r])],
                      !.thHidden[c] = @ /\ ~s.list[k].checked,
                      !.tdHidden = [r \in DOMAIN s.text |->
                                     [@[r] EXCEPT ![c] = @ /\ ~s.list[k].checked]]],
            k + 1)

RECURSIVE saveColumns(_, _)
\* _handlerSaveChanges(): the forEach over the list items -- the column's th and
\* every row's td are appended to their rows, then shown or hidden by the checkbox
saveColumns(s, k) ==
  IF k > Len(s.list) THEN s
  ELSE LET c == s.list[k].sn
           moved(cellSeq) == Append(SelectSeq(cellSeq, LAMBDA x : x # c), c)
       IN saveColumns(
            [s EXCEPT !.head = moved(@),
                      !.cells = [r \in DOMAIN s.text |-> moved(@[r])],
                      !.thHidden[c] = ~s.list[k].checked,
                      !.tdHidden = [r \in DOMAIN s.text |-> [@[r] EXCEPT ![c] = ~s.list[k].checked]]],
            k + 1)

\* escapeCSVField(): a field with a double quote, a comma or a newline is
\* wrapped in double quotes, its double quotes doubled
escapeCSVField(field) ==
  LET RECURSIVE doubled(_)
      doubled(f) == IF f = <<>> THEN <<>>
                    ELSE (IF Head(f) = "\"" THEN <<"\"", "\"">> ELSE <<Head(f)>>)
                         \o doubled(Tail(f))
  IN IF \E k \in 1..Len(field) : field[k] \in {"\"", ",", "\n"}
     THEN <<"\"">> \o doubled(field) \o <<"\"">>
     ELSE field

\* csvContent: the byte order mark, then every row's fields joined by commas
\* (Array.prototype.join) and ended by a newline
csvContent(lines) ==
  LET RECURSIVE join(_)
      join(fields) == IF fields = <<>> THEN <<>>
                      ELSE IF Len(fields) = 1 THEN fields[1]
                      ELSE fields[1] \o <<",">> \o join(Tail(fields))
      RECURSIVE text(_)
      text(ls) == IF ls = <<>> THEN <<>> ELSE join(ls[1]) \o <<"\n">> \o text(Tail(ls))
  IN <<"\\uFEFF">> \o text(lines)

downloadCSV_allCells(s) ==
  LET row(r) == [k \in 1..Len(DataCells(s.cells[r])) |->
                   escapeCSVField(trim(s.text[r][DataCells(s.cells[r])[k]]))]
      headers == [k \in 1..Len(DataCells(s.head)) |->
                    escapeCSVField(trim(HeaderText[DataCells(s.head)[k]]))]
      dataRows == SelectSeq(s.rows, LAMBDA r : ~s.rowHidden[r])
  IN csvContent(<<headers>> \o [k \in 1..Len(dataRows) |-> row(dataRows[k])])

\* _initDownloadCSV(): the click handler's csvContent
downloadCSV(s) ==
  LET ths == SelectSeq(DataCells(s.head), LAMBDA c : ~s.thHidden[c])
      headers == [k \in 1..Len(ths) |-> escapeCSVField(trim(HeaderText[ths[k]]))]
      dataRows == SelectSeq(s.rows, LAMBDA r : ~s.rowHidden[r])
      tds(r) == SelectSeq(DataCells(s.cells[r]), LAMBDA c : ~s.tdHidden[r][c])
      rowData(r) == [k \in 1..Len(tds(r)) |-> escapeCSVField(trim(s.text[r][tds(r)[k]]))]
  IN csvContent(<<headers>> \o [k \in 1..Len(dataRows) |-> rowData(dataRows[k])])

\* one event of the table or of its config modal: the handlers leave the page in
\* state t; what the event downloaded, if anything, replaces the last download
GridStep(ev, t, file) ==
  /\ grid' = [t EXCEPT !.ev = ev, !.download = file,
                        !.undone = IF ev = "close" THEN grid.list # grid.atShow ELSE @]
  /\ UNCHANGED <<contVars, alertVars, tableVars, formVars, djVars>>

\* _initCheckAll(): the user toggles the check-all box, whose change handler
\* copies its state to every row checkbox
ToggleCheckAll ==
  GridStep("check-all", [grid EXCEPT !.checkAll = ~@,
                                      !.checked = [r \in DOMAIN grid.text |-> ~grid.checkAll]], <<>>)

\* the user toggles the checkbox of a visible row
ToggleItem(r) ==
  /\ ~grid.rowHidden[r]
  /\ GridStep("check-item", checkItemChange([grid EXCEPT !.checked[r] = ~@]), <<>>)

\* _initRowClickCheck(): the user clicks a visible data cell of a visible row --
\* the row's checkbox is toggled and a change event dispatched on it
ClickCell(r, c) ==
  /\ ~grid.rowHidden[r] /\ ~grid.tdHidden[r][c]
  /\ GridStep("cell", checkItemChange([grid EXCEPT !.checked[r] = ~@]), <<>>)

\* the user types q into the search box and clicks search or presses Enter
Search(q) == GridStep("search", searchClick([grid EXCEPT !.input = q]), <<>>)

\* the user clicks the no-filter button: the input is cleared, then search clicked
NoFilter ==
  /\ ~grid.noFilterHidden
  /\ GridStep("no-filter", searchClick([grid EXCEPT !.input = <<>>]), <<>>)

\* _initSorting(): the user clicks the header of column c
ClickHeader(c) ==
  /\ ~grid.thHidden[c]
  /\ LET newSort == IF grid.sortOrder[c] = "asc" THEN "desc" ELSE "asc"
     IN \E sorted \in sortRows(grid, c, newSort) :
          GridStep("sort", [grid EXCEPT !.sortOrder[c] = newSort, !.rows = sorted], <<>>)

\* the user clicks the download button
DownloadCSV == GridStep("csv", grid, downloadCSV(grid))

\* the config button opens the modal: show.bs.modal runs
\* _extraHandlerSaveInitialStates(), which records _saveListStates(): [sn, checked]
\* of every item in list order
OpenConfig ==
  /\ ~grid.shown
  /\ LET liStates == [k \in 1..Len(grid.list) |->
                        [sn |-> grid.list[k].sn, checked |-> grid.list[k].checked]]
     IN GridStep("open", [grid EXCEPT !.listInitialStates = liStates,
                                      !.shown = TRUE, !.atShow = grid.list], <<>>)

\* the user closes the modal without saving
CloseConfig ==
  /\ grid.shown
  /\ GridStep("close", hideConfig(grid), <<>>)

\* DraggerMJ: the user drags the k-th item of the list to position pos
Drag(k, pos) ==
  /\ grid.shown
  /\ k # pos
  /\ LET rest == SubSeq(grid.list, 1, k - 1) \o SubSeq(grid.list, k + 1, Len(grid.list))
         list == SubSeq(rest, 1, pos - 1) \o <<grid.list[k]>> \o SubSeq(rest, pos, Len(rest))
     IN GridStep("drag", [grid EXCEPT !.list = list], <<>>)

\* the user toggles the checkbox of the k-th item of the list
ToggleColumn(k) ==
  /\ grid.shown
  /\ GridStep("column", [grid EXCEPT !.list[k].checked = ~@], <<>>)

\* _handlerRestoreDefault(): click on restore-default
RestoreDefault ==
  /\ grid.shown
  /\ GridStep("default",
              [grid EXCEPT !.list = restoreListStates(grid.list, grid.listOriginalStates, 1)],
              <<>>)

\* _handlerSaveChanges(): click on save-changes -- the columns are moved and
\* shown or hidden, _saveChanges is set and hide() called
SaveChanges ==
  /\ grid.shown
  /\ GridStep("save", [hideConfig([saveColumns(grid, 1) EXCEPT !.saveChanges = TRUE])
                         EXCEPT !.atSave = grid.list], <<>>)

(***************************************************************************)
(* Specifications                                                          *)
(***************************************************************************)
InitAlert ==
  /\ btnListeners = <<>>
  /\ confirmActionHandlers = <<>>
  /\ btnVisible \in [Btns -> BOOLEAN]
  /\ modalShown = FALSE
  /\ modalBody = [key |-> "none", rec |-> "none"]
  /\ confirmDismisses \in BOOLEAN
  /\ navigated = "none"
  /\ timers = 0
  /\ hiddenOnce = 0

InitCont ==
  /\ DjIdle
  /\ GridIdle
  /\ ContIdle
  /\ baseHasPhases \in BOOLEAN
  /\ AlertIdle
  /\ TableIdle
  /\ FormIdle

InitTable ==
  /\ DjIdle
  /\ GridIdle
  /\ InitAlert
  /\ TableIdle
  /\ ContIdle
  /\ baseHasPhases = FALSE
  /\ FormIdle

NextTable ==
  \/ \E r \in Recs : ClickDelete(r)
  \/ ClickConfirm
  \/ ClickCancel
  \/ \E r \in Recs, outcome \in {"ok", "fail", "neterr"} : DeleteResponse(r, outcome)

SpecTable == InitTable /\ [][NextTable]_vars

InitForm ==
  /\ DjIdle
  /\ GridIdle
  /\ InitAlert
  /\ TableIdle
  /\ ContIdle
  /\ baseHasPhases = FALSE
  /\ pks \in {"_new", "7"}
  /\ initialData \in [qty : QtyOriginals, flag : {Undefined, Str("on")}]
  /\ loadedForm = [qty |-> Render(initialData.qty), flag |-> initialData.flag = Str("on")]
  /\ form = loadedForm
  /\ qtyRequired \in BOOLEAN
  /\ posts = 0
  /\ postPending = 0

NextForm ==
  \/ \E v \in QtyTexts : EditQty(v)
  \/ ToggleFlag
  \/ ClickSubmit
  \/ \E outcome \in {"ok", "error", "status", "notjson", "failed"} : PostResponse(outcome)
  \/ ClickConfirm
  \/ ClickCancel
  \/ TimerFire

SpecForm == InitForm /\ [][NextForm]_vars

\* the browser runs a timer's callback once its delay has elapsed
SpecFormFair == SpecForm /\ WF_vars(TimerFire)

NextCont ==
  \/ \E cls \in ConcreteClasses, arg \in Args : New(cls, arg)
  \/ \E cls \in ConcreteClasses, arg \in Args : GetInstance(cls, arg)
  \/ \E cls \in ConcreteClasses, arg \in Args \cup {NullArg} : GetOrCreateInstance(cls, arg)

SpecCont == InitCont /\ [][NextCont]_vars

InitAlertOnly ==
  /\ DjIdle
  /\ GridIdle
  /\ InitAlert
  /\ TableIdle
  /\ ContIdle
  /\ baseHasPhases = FALSE
  /\ FormIdle

NextAlert ==
  \/ \E msgKey \in {"success", "error"}, B \in ButtonLists,
        action \in {NoAction, ReloadAction} : AlertUpdate(msgKey, B, action)
  \/ \E timeout \in Timeouts : AlertShow(timeout)
  \/ \E h \in 0..2 : AlertRemoveHandler(h)
  \/ AlertRemoveAllHandlers
  \/ ClickConfirm
  \/ ClickCancel
  \/ TimerFire

SpecAlert == InitAlertOnly /\ [][NextAlert]_vars

\* a pending timer of setTimeout fires as long as the page lives
SpecAlertFair == SpecAlert /\ WF_vars(TimerFire)

\* the table page after construction; the checkbox states of the config list
\* come from the modal's template
InitGrid ==
  /\ DjIdle
  /\ grid \in {GridLoaded(checks) : checks \in [1..Len(DataCols) -> BOOLEAN]}
  /\ AlertIdle
  /\ TableIdle
  /\ ContIdle
  /\ baseHasPhases = FALSE
  /\ FormIdle

NextRows ==
  \/ ToggleCheckAll
  \/ \E r \in DOMAIN grid.text : ToggleItem(r)
  \/ \E r \in DOMAIN grid.text, c \in Cols : ClickCell(r, c)
  \/ \E q \in Queries : Search(q)
  \/ NoFilter
  \/ \E c \in Cols : ClickHeader(c)

SpecRows == InitGrid /\ [][NextRows]_vars

NextConfig ==
  \/ OpenConfig
  \/ CloseConfig
  \/ \E k, pos \in 1..Len(DataCols) : Drag(k, pos)
  \/ \E k \in 1..Len(DataCols) : ToggleColumn(k)
  \/ RestoreDefault
  \/ SaveChanges
  \/ \E c \in Cols : ClickHeader(c)

SpecConfig == InitGrid /\ [][NextConfig]_vars

NextExport ==
  \/ OpenConfig
  \/ CloseConfig
  \/ \E k, pos \in 1..Len(DataCols) : Drag(k, pos)
  \/ \E k \in 1..Len(DataCols) : ToggleColumn(k)
  \/ RestoreDefault
  \/ SaveChanges
  \/ \E c \in Cols : ClickHeader(c)
  \/ \E q \in Queries : Search(q)
  \/ NoFilter
  \/ DownloadCSV

SpecExport == InitGrid /\ [][NextExport]_vars

\* the table page of three records after construction, all columns shown; the
\* second data cell of every record holds "0"
InitData ==
  /\ DjIdle
  /\ grid \in {GridWith(<<"r1", "r2", "r3">>,
                        [r \in {"r1", "r2", "r3"} |-> <<first[r], <<"0">>>>],
                        [k \in 1..Len(DataCols) |-> TRUE]) :
                 first \in [{"r1", "r2", "r3"} -> CellTexts]}
  /\ AlertIdle
  /\ TableIdle
  /\ ContIdle
  /\ baseHasPhases = FALSE
  /\ FormIdle

NextData ==
  \/ \E c \in Cols : ClickHeader(c)
  \/ DownloadCSV

SpecData == InitData /\ [][NextData]_vars

InitDJ ==
  /\ DjIdle
  /\ GridIdle
  /\ ContIdle
  /\ baseHasPhases = FALSE
  /\ AlertIdle
  /\ TableIdle
  /\ FormIdle

NextDJ ==
  \/ \E i \in DjInsts, T \in DjTypes \cup {NoType}, d \in DjDataArgs : DjConstruct(i, T, d)
  \/ \E i \in DjInsts, T \in DjTypes \cup {NoType}, d \in DjDataArgs : DjUpdate(i, T, d)
  \/ \E i \in DjInsts : DjUpdateNull(i)
  \/ \E n \in 1..MaxTasks, ok \in BOOLEAN : DjResume(n, ok)
  \/ \E c \in 1..MaxCards, n \in 1..2, v \in {"", "v"} : DjChange(c, n, v)

SpecDJ == InitDJ /\ [][NextDJ]_vars

(***************************************************************************)
(* Claims: DatajsonMJ                                                      *)
(***************************************************************************)
\* C1: in every reachable state of a constructed instance, after any sequence
\* of update() calls (also with a requested type that differs from the tag of
\* the supplied data), data.__datajson_id__ equals the instance's type
C1_TagEqualsType ==
  \A i \in DjInsts :
    dj.inst[i].made =>
      /\ dj.inst[i].data.def
      /\ dj.inst[i].data.tag = dj.inst[i].type

\* C2: over any interleaving of constructions and update() calls of all
\* instances, at most one structure request is issued for each type
C2_FetchedOncePerType == \A T \in DjTypes : dj.fetches[T] <= 1

\* C3: whenever elementCache[T] is set it holds the card rendered from the
\* schema of T, every input id of which carries the prefix T
C3_ElementCachePerType ==
  \A T \in DjTypes :
    dj.elementCache[T] # 0 =>
      LET card == dj.cards[dj.elementCache[T]]
      IN /\ card.schema = T
         /\ \A n \in 1..Len(card.prefix) : card.prefix[n] = T

InputValue(i, f) ==
  LET c == dj.inst[i].element
      hits == IF c = 0 THEN {}
              ELSE {n \in 1..Len(dj.cards[c].value) : DjFields(dj.cards[c].schema)[n] = f}
  IN IF hits = {} THEN "" ELSE dj.cards[c].value[CHOOSE n \in hits : TRUE]

\* C4: after the change event of a rendered input the carrier holds a record
\* tagged with the instance's current type, in which each schema field is
\* present, with its input's value, exactly when that input is non-empty
C4_CarrierAfterChange ==
  dj.last.ev = "change" =>
    LET inst == dj.inst[dj.last.inst]
    IN /\ inst.carrier.def
       /\ inst.carrier.tag = inst.type
       /\ \A n \in 1..Len(DjFields(inst.type)) :
            LET f == DjFields(inst.type)[n]
            IN inst.carrier.vals[f] =
                 IF InputValue(dj.last.inst, f) = "" THEN Absent
                 ELSE InputValue(dj.last.inst, f)

(***************************************************************************)
(* Claims: ModalAlertMJ and the datatable's delete                         *)
(***************************************************************************)
\* C5: confirm handlers are one-shot. A confirm action installed by update()
\* is invoked at most once however often confirm is clicked before the next
\* update(), and never after a later update().
C5_OneShot ==
  /\ \A k \in 1..Len(btnListeners) : btnListeners[k].runs <= 1
  /\ ~staleInvoked

\* C6: a DELETE for a record's URL is sent only by a confirm click on the
\* displayed warning alert of that record, whose delete button was clicked
\* before; cancel sends nothing, and a confirm click on a later alert sends
\* no DELETE for an earlier record.
C6_DeleteOnlyAfterConfirm ==
  [][/\ \A r \in Recs :
          delIssued'[r] > delIssued[r] =>
            /\ lastEvent' = "confirm"
            /\ r \in warned
            /\ modalShown /\ btnVisible["confirm"]
            /\ modalBody = [key |-> "warning_delete", rec |-> r]
     /\ lastEvent' = "cancel" => delIssued' = delIssued]_vars

\* r1's warning was dismissed, r2's warning confirmed: one DELETE, for r2
C6_Witness ==
  /\ warned = {"r1", "r2"}
  /\ lastEvent = "confirm"
  /\ modalBody = [key |-> "warning_delete", rec |-> "r2"]
  /\ delIssued["r1"] = 0
  /\ delIssued["r2"] = 1

(***************************************************************************)
(* Claims: FormModifyMJ                                                    *)
(***************************************************************************)
FieldChanged(k) == form[k] # loadedForm[k]

FormUnchanged == form = loadedForm

ReportedKeys ==
  LET cur == FormData(form)
  IN {cur[k].key : k \in dataModified(cur, initialData)}

\* C7: for an existing record, a click on submit sends the POST only if the
\* form is valid and a field differs from the initial data; an invalid form
\* sends nothing; a valid, unchanged form sends nothing and shows 'nochange'.
C7_SubmitGuard ==
  [][(lastEvent' = "submit" /\ pks # "_new") =>
       /\ posts' > posts => (FormValid /\ ~FormUnchanged)
       /\ ~FormValid => posts' = posts
       /\ (FormValid /\ FormUnchanged) =>
            /\ posts' = posts
            /\ modalShown'
            /\ modalBody'.key = "nochange"]_vars

\* C8: the dirty check is exact. _dataModified() is empty exactly when the
\* current form data equals the initial data; an untouched field is never
\* reported, whatever the type of its original value, and every changed
\* field is, also one that has dropped out of the current FormData.
C8_DirtyCheckExact ==
  /\ (ReportedKeys = {}) <=> FormUnchanged
  /\ \A k \in {"qty", "flag"} : (k \in ReportedKeys) <=> FieldChanged(k)

(***************************************************************************)
(* Claims: ContainerMJ                                                     *)
(***************************************************************************)
\* the instances constructed on element e, in construction order
OnElem(e) == {i \in InstIds : instances[i].elem = e}

Newest(S) == CHOOSE i \in S : \A j \in S : j <= i

PhaseIndex(p) == CHOOSE k \in 1..Len(Phases) : Phases[k] = p

\* listeners for hide.bs.modal that ModalMJ._initFunctions installed on instance i
HideListeners(i) ==
  Cardinality({k \in 1..Len(instances[i].trace) :
                 /\ instances[i].trace[k].cls = "ModalMJ"
                 /\ instances[i].trace[k].method = "_initFunctions"})

\* C10: construction runs initArgs, findElements, initProperties, initFunctions
\* in that order; no phase method of a class in the chain runs twice or outside
\* its own phase, so ModalMJ's hide.bs.modal handler is installed exactly once
\* (of a construction that ran to its end).
C10_PhasesOnce ==
  \A i \in InstIds :
    LET t == instances[i].trace IN
      instances[i].complete =>
      /\ \A k \in 1..Len(t) : t[k].method = t[k].phase
      /\ \A j, k \in 1..Len(t) :
           j < k => /\ PhaseIndex(t[j].phase) <= PhaseIndex(t[k].phase)
                    /\ <<t[j].cls, t[j].method>> # <<t[k].cls, t[k].method>>
      /\ IsSubclass(instances[i].cls, "ModalMJ") => HideListeners(i) = 1

\* C11: after update({buttonTypes: B}) each of the three action buttons is visible
\* if and only if its name is in B, whatever was visible before the call: in
\* every state, for every B, the visibility update() leaves is the one B lists
C11_ButtonsAsListed ==
  \A B \in ButtonLists :
    \A b \in Btns : UpdateButtons(btnVisible, B)[b] <=> b \in Range(B)

\* an update() has hidden some buttons and left others visible
C11_Witness ==
  /\ lastEvent = "update"
  /\ btnVisible["cancel"] /\ ~btnVisible["acknowledge"] /\ ~btnVisible["confirm"]

\* C12: show(t) with t > 0 schedules one hide, which hides the modal when the
\* timer fires unless it is hidden already; show() or show(0) schedules no hide
C12_TimedAutoHide ==
  /\ [][\A t \in Timeouts :
          AlertShow(t) => /\ modalShown'
                          /\ timers' = timers + (IF t > 0 THEN 1 ELSE 0)]_vars
  /\ [][TimerFire => ~modalShown']_vars
  /\ (modalShown /\ timers > 0) ~> (~modalShown \/ ~PageAlive)

\* the timer of a show(t) has fired and the modal is hidden
C12_Witness == lastEvent = "timer" /\ ~modalShown /\ timers = 0

\* C13: with at least one row, after every event the check-all box is checked
\* if and only if every row checkbox is checked, and a click on a data cell
\* toggles the checkbox of its own row and no other
C13_CheckAll ==
  /\ [](grid.checkAll <=> \A r \in Recs : grid.checked[r])
  /\ [][\A r \in Recs, c \in Cols :
          ClickCell(r, c) => /\ grid'.checked[r] = ~grid.checked[r]
                             /\ \A o \in Recs \ {r} : grid'.checked[o] = grid.checked[o]]_vars

\* a click on a data cell has checked the last unchecked row
C13_Witness == grid.ev = "cell" /\ grid.checkAll

\* text t contains q, the case of letters ignored
ContainsIgnoringCase(t, q) ==
  LET same(x, y) == x = y \/ {x, y} \in {{"a", "A"}, {"b", "B"}, {"n", "N"}, {"q", "Q"}}
  IN \E i \in 0..(Len(t) - Len(q)) : \A k \in 1..Len(q) : same(t[i + k], q[k])

\* the rows the applied search text leaves visible
Filtered(r) ==
  /\ grid.curSearchQuery # <<>>
  /\ \A c \in Cols : ~ContainsIgnoringCase(grid.text[r][c], grid.curSearchQuery)

\* C14: with q the search text last applied, a row is hidden if and only if q is
\* not empty and no data cell of the row contains q ignoring case; the no-filter
\* button is visible if and only if q is not empty; no-filter shows every row
C14_SearchFilter ==
  /\ [](\A r \in Recs : grid.rowHidden[r] <=> Filtered(r))
  /\ [](grid.noFilterHidden <=> grid.curSearchQuery = <<>>)
  /\ [][\A q \in Queries : Search(q) => grid'.curSearchQuery = q]_vars
  /\ [][NoFilter => \A r \in Recs : ~grid'.rowHidden[r]]_vars

\* the search for "a" has kept the row with "Ab" and hidden the other
C14_Witness ==
  /\ grid.ev = "search" /\ grid.curSearchQuery = <<"a">>
  /\ ~grid.rowHidden["r1"] /\ grid.rowHidden["r2"]

\* C15: every body row has its data cells in the header row's order, the checkbox
\* and Actions cells stay in front, and right after a save that order is the
\* order of the items of the config list
C15_ColumnOrder ==
  /\ SubSeq(grid.head, 1, Len(FrontCells)) = FrontCells
  /\ \A r \in Recs : /\ SubSeq(grid.cells[r], 1, Len(FrontCells)) = FrontCells
                      /\ DataCells(grid.cells[r]) = DataCells(grid.head)
  /\ Len(DataCells(grid.head)) = Len(DataCols)
  /\ grid.ev = "save" =>
       DataCells(grid.head) = [k \in 1..Len(grid.list) |-> grid.list[k].sn]

\* a save has swapped the two data columns
C15_Witness == grid.ev = "save" /\ DataCells(grid.head) = <<2, 1>>

\* C16: right after a save a column's header cell and body cells are hidden if
\* and only if its checkbox in the list is unchecked; a header cell and the body
\* cells of its column are always hidden or visible together
C16_ColumnHidden ==
  /\ \A c \in Cols, r \in Recs : grid.thHidden[c] <=> grid.tdHidden[r][c]
  /\ grid.ev = "save" =>
       \A k \in 1..Len(grid.list) :
          grid.thHidden[grid.list[k].sn] <=> ~grid.list[k].checked

\* a save has hidden column 1 and shown column 2, which an earlier save had hidden
C16_Witness ==
  /\ grid.ev = "save" /\ grid.thHidden[1] /\ ~grid.thHidden[2]
  /\ \E k \in 1..Len(grid.atShow) : grid.atShow[k].sn = 2 /\ ~grid.atShow[k].checked

\* the table as the column config and the search leave it
TableOf(s) == <<s.head, s.cells, s.thHidden, s.tdHidden, s.rows, s.rowHidden>>

\* C17: closing the config modal without saving puts the list back to the order
\* and checkbox states it had when the modal was shown and leaves the table as it is
C17_CancelRestores ==
  [][CloseConfig => /\ grid'.list = grid.atShow
                    /\ TableOf(grid') = TableOf(grid)]_vars

\* the modal was closed without saving after changes of the list
C17_Witness == grid.ev = "close" /\ grid.undone /\ grid.list = grid.atShow

\* C18: a save keeps the list as saved and hides the modal with _saveChanges
\* false again; while the modal is hidden the flag is false and, after a save,
\* the list is the saved one, also after a later open and cancel
C18_SaveKeepsList ==
  /\ [][SaveChanges => /\ grid'.list = grid.list
                        /\ ~grid'.saveChanges /\ ~grid'.shown]_vars
  /\ [](~grid.shown => ~grid.saveChanges)
  /\ []((~grid.shown /\ grid.atSave # <<>>) => grid.list = grid.atSave)

\* after a save that changed the list, the modal was opened again, the list was
\* changed and the modal closed without saving
C18_Witness ==
  /\ grid.ev = "close" /\ grid.undone
  /\ grid.atSave # <<>> /\ grid.atSave # grid.atBuild /\ grid.list = grid.atSave

\* C19: restore-default sets the list to the order and checkbox states recorded
\* at construction and leaves the table as it is
C19_RestoreDefault ==
  [][RestoreDefault => /\ grid'.list = grid.atBuild
                       /\ TableOf(grid') = TableOf(grid)]_vars

\* restore-default was clicked after a save of another order and after changes
C19_Witness ==
  /\ grid.ev = "default" /\ grid.list = grid.atBuild
  /\ grid.atSave # <<>> /\ grid.atSave[1].sn # grid.atBuild[1].sn
  /\ grid.atShow # grid.atBuild

\* the columns the column config shows, in its order: those of the last save,
\* all columns in template order before any save
ConfigCols ==
  IF grid.atSave = <<>> THEN DataCols
  ELSE LET on == SelectSeq(grid.atSave, LAMBDA li : li.checked)
       IN [k \in 1..Len(on) |-> on[k].sn]

\* the export the claim describes
ExpectedCSV ==
  LET shownRows == SelectSeq(grid.rows, LAMBDA r : ~Filtered(r))
      headers == [k \in 1..Len(ConfigCols) |-> escapeCSVField(trim(HeaderText[ConfigCols[k]]))]
      line(r) == [k \in 1..Len(ConfigCols) |-> escapeCSVField(trim(grid.text[r][ConfigCols[k]]))]
  IN csvContent(<<headers>> \o [k \in 1..Len(shownRows) |-> line(shownRows[k])])

\* C20: the export is the header row followed by the rows the search filter does
\* not hide, in display order, each with the columns the column config does not
\* hide, in the current column order, so every row has as many fields as the header
C20_CSVExport == grid.ev = "csv" => grid.download = ExpectedCSV

\* an export with a row filtered out, the columns swapped and a column hidden
\* at some save
C20_Witness ==
  /\ grid.ev = "csv"
  /\ \E r \in Recs : grid.rowHidden[r]
  /\ grid.atSave # <<>> /\ grid.atSave[1].sn = 2 /\ ~grid.atSave[2].checked

\* the fields the export hands to escapeCSVField(), line by line: the visible
\* header cells, then the visible cells of every visible row
CSVFields ==
  LET ths == SelectSeq(DataCells(grid.head), LAMBDA c : ~grid.thHidden[c])
      dataRows == SelectSeq(grid.rows, LAMBDA r : ~grid.rowHidden[r])
      tds(r) == SelectSeq(DataCells(grid.cells[r]), LAMBDA c : ~grid.tdHidden[r][c])
  IN <<[k \in 1..Len(ths) |-> trim(HeaderText[ths[k]])]>>
     \o [i \in 1..Len(dataRows) |->
          [k \in 1..Len(tds(dataRows[i])) |-> trim(grid.text[dataRows[i]][tds(dataRows[i])[k]])]]

RECURSIVE readCSV(_, _, _, _, _)
\* a standard CSV reader (RFC 4180, as spreadsheets and CSV libraries read it):
\* a field in double quotes runs to its closing quote, a doubled quote in it is
\* one quote; outside quotes a comma ends the field and a line feed, a carriage
\* return or the two together end the record
readCSV(in, st, field, rec, recs) ==
  IF in = <<>>
  THEN (IF st = "start" /\ rec = <<>> THEN recs ELSE Append(recs, Append(rec, field)))
  ELSE LET ch == Head(in)
           rest == Tail(in)
           endField == readCSV(rest, "start", <<>>, Append(rec, field), recs)
           endRecord == readCSV(rest, "start", <<>>, <<>>, Append(recs, Append(rec, field)))
       IN CASE st = "start" /\ ch = "\"" -> readCSV(rest, "quoted", <<>>, rec, recs)
            [] st = "start" /\ ch \in {"\n", "\r"} /\ rec = <<>> ->
                 readCSV(rest, "start", <<>>, <<>>, recs)
            [] st = "quoted" /\ ch = "\"" -> readCSV(rest, "closing", field, rec, recs)
            [] st = "quoted" /\ ch # "\"" -> readCSV(rest, "quoted", Append(field, ch), rec, recs)
            [] st = "closing" /\ ch = "\"" ->
                 readCSV(rest, "quoted", Append(field, ch), rec, recs)
            [] st # "quoted" /\ ch = "," -> endField
            [] st # "quoted" /\ ch \in {"\n", "\r"} -> endRecord
            [] OTHER -> readCSV(rest, "plain", Append(field, ch), rec, recs)

\* the records a standard CSV reader finds in the file, its byte order mark skipped
ReadBack(file) ==
  readCSV(IF file # <<>> /\ Head(file) = "\\uFEFF" THEN Tail(file) ELSE file,
          "start", <<>>, <<>>, <<>>)

RECURSIVE QuotesDoubled(_)
\* the text f with every double quote written twice
QuotesDoubled(f) ==
  IF f = <<>> THEN <<>>
  ELSE IF f[Len(f)] = "\""
       THEN QuotesDoubled(SubSeq(f, 1, Len(f) - 1)) \o <<"\"", "\"">>
       ELSE Append(QuotesDoubled(SubSeq(f, 1, Len(f) - 1)), f[Len(f)])

\* C21: CSV field escaping round-trips -- every exported field with a comma, a
\* newline or a double quote is wrapped in double quotes with its double quotes
\* doubled, every other field is emitted unchanged, and a standard CSV reader
\* applied to the exported lines recovers exactly the original fields
C21_CSVRoundTrip ==
  grid.ev = "csv" =>
    /\ \A i \in 1..Len(CSVFields) : \A k \in 1..Len(CSVFields[i]) :
         LET f == CSVFields[i][k]
         IN escapeCSVField(f) =
              IF \E n \in 1..Len(f) : f[n] \in {",", "\n", "\""}
              THEN <<"\"">> \o QuotesDoubled(f) \o <<"\"">>
              ELSE f
    /\ ReadBack(grid.download) = CSVFields

\* C22: a click on a sortable header only permutes the body rows -- the same
\* rows before and after, none lost and none twice, and every row keeps its
\* cells and their texts, its checkbox state and its hidden state
C22_SortPermutes ==
  [][(\E c \in Cols : ClickHeader(c)) =>
       /\ Len(grid'.rows) = Len(grid.rows)
       /\ Range(grid'.rows) = Range(grid.rows)
       /\ \A i, j \in 1..Len(grid'.rows) : grid'.rows[i] = grid'.rows[j] => i = j
       /\ grid'.cells = grid.cells
       /\ grid'.text = grid.text
       /\ grid'.tdHidden = grid.tdHidden
       /\ grid'.checked = grid.checked
       /\ grid'.checkAll = grid.checkAll
       /\ grid'.rowHidden = grid.rowHidden]_vars

\* a sort has just swapped the two rows of a table with a checked row and a
\* row hidden by the search filter
C22_Witness ==
  /\ grid.ev = "sort"
  /\ grid.rows = <<"r2", "r1">>
  /\ \E r \in DOMAIN grid.checked : grid.checked[r]
  /\ \E r \in DOMAIN grid.rowHidden : grid.rowHidden[r]

C24_RequiredReadonly ==
  \A c \in 1..Len(dj.cards) :
    LET structure == Structure(dj.cards[c].schema)
    IN \A n \in 1..Len(dj.cards[c].prefix) :
         LET key == structure.data[n]
             input == inputElement(structure, key)
         IN /\ input.required <=> key \in Range(structure.required)
            /\ input.readOnly <=> key \in Range(structure.readonly)

\* the kind of input a field of the structure is to get: date for a date
\* field, else select for a field with options, else textarea for a long-text
\* field, else text
KindOf(structure, key) ==
  IF key \in Range(structure.date) THEN "date"
  ELSE IF key \in DOMAIN structure.select_options THEN "select"
  ELSE IF key \in Range(structure.longtext) THEN "textarea"
  ELSE "text"

\* the input ids of a card are <type>-<field>-<uid> for the type it renders
C25_Ids ==
  \A c \in 1..Len(dj.cards) :
    \A n \in 1..Len(dj.cards[c].prefix) : dj.cards[c].prefix[n] = dj.cards[c].schema

\* C25: rendering a type creates exactly one input per schema field, with id
\* <type>-<field>-<uid>, of the kind date, select (with a search box for more
\* than 5 options), textarea or text that the field's place in the schema's
\* date list, options and longtext list calls for
C25_OneInputPerField ==
  \A c \in 1..Len(dj.cards) :
    LET card == dj.cards[c]
        structure == Structure(card.schema)
    IN /\ Len(card.prefix) <= Len(structure.data)
       /\ card.attached => Len(card.prefix) = Len(structure.data)
       /\ C25_Ids
       /\ \A n \in 1..Len(card.prefix) :
            LET key == structure.data[n]
                input == inputElement(structure, key)
            IN /\ input.kind = KindOf(structure, key)
               /\ input.selectpicker <=>
                    (input.kind = "select" /\ structure.select_options[key] > 5)

\* a card that is in a container and not hidden
Displayed(c) == dj.cards[c].attached /\ dj.cards[c].display # "none"

\* the cards displayed in the container of instance i: a card is appended to
\* the container of the instance that rendered it and never moved
DisplayedIn(i) == {c \in 1..Len(dj.cards) : dj.cards[c].owner = i /\ Displayed(c)}

\* update() has just completed on instance i without an error
UpdateDone(i) ==
  /\ dj.last = [ev |-> "update", inst |-> i, threw |-> FALSE]
  /\ \A n \in 1..Len(dj.tasks) : ~(dj.tasks[n].inst = i /\ dj.tasks[n].kind = "update")

\* C26: when update() to another type completes, the card of the old type is
\* hidden and the card of the new type is displayed; at most one card of an
\* instance's container is ever displayed, and none after a change to an
\* empty type
C26_OneCardDisplayed ==
  \A i \in DjInsts :
    /\ Cardinality(DisplayedIn(i)) <= 1
    /\ (UpdateDone(i) /\ dj.inst[i].type # NoType) =>
         /\ dj.inst[i].element # 0
         /\ dj.cards[dj.inst[i].element].schema = dj.inst[i].type
         /\ DisplayedIn(i) = {dj.inst[i].element}
    /\ (UpdateDone(i) /\ dj.inst[i].type = NoType) => DisplayedIn(i) = {}

C28_ErrorAlert ==
  /\ [][\A outcome \in {"error", "status", "notjson", "failed"} :
          PostResponse(outcome) =>
            /\ modalShown'
            /\ modalBody'.key = "error"
            /\ outcome # "failed" =>
                 modalBody'.rec \in {"errData.error", "response.statusText"}
            /\ btnVisible' = [b \in Btns |-> b = "acknowledge"]
            /\ confirmActionHandlers' = <<>>
            /\ btnListeners' = <<>>
            /\ timers' = 0
            /\ navigated' = "none"]_vars
  /\ [](modalBody.key = "error" => navigated = "none")

\* C29: when a required element is missing, construction throws InstanceError
\* and leaves no instance behind -- no container holds an object whose
\* construction threw, so getInstance(container) returns null afterwards and
\* neither getInstance nor getOrCreateInstance returns such an object
C29_NoPartialInstance ==
  /\ \A e \in Elems : domInstance[e] # 0 => instances[domInstance[e]].complete
  /\ lastCall.ret.kind = "instance" => instances[lastCall.ret.id].complete
  /\ (lastCall.op \in {"new", "getOrCreateInstance"} /\ lastCall.arg.kind = "elem"
        /\ lastCall.cachedBefore = 0
        /\ ~getValidElement(lastCall.arg.elem, lastCall.cls)) =>
       /\ lastCall.ret = Throw("InstanceError")
       /\ getInstance(lastCall.cls, lastCall.arg, instances, domInstance) = 0

\* C30: C.getInstance(E) and C.getOrCreateInstance(E) return only an instance
\* of C (or null for getInstance), also after an instance of another subclass
\* was constructed on E, and constructing a second instance on E does not
\* replace the cached one
C30_InstanceOfClass ==
  /\ (lastCall.op \in {"getInstance", "getOrCreateInstance"}
        /\ lastCall.ret.kind = "instance") =>
       IsSubclass(instances[lastCall.ret.id].cls, lastCall.cls)
  /\ (lastCall.op = "getInstance" /\ lastCall.ret.kind # "instance") =>
       lastCall.ret = RetNull
  /\ (lastCall.op = "new" /\ lastCall.arg.kind = "elem" /\ lastCall.cachedBefore # 0) =>
       domInstance[lastCall.arg.elem] = lastCall.cachedBefore

\* C31: however the type selector's change events interleave with the pending
\* fetches of the constructor and of earlier update() calls -- the type is the
\* one selected last, no update() fails, and once nothing is pending (and
\* every structure requested has arrived) the element of an instance with a
\* type is defined and is the displayed card of that type
C31_SettledType ==
  /\ [][\A i \in DjInsts, T \in DjTypes \cup {NoType} :
          DjUpdate(i, T, UndefinedData) => dj'.inst[i].type = T]_vars
  /\ [](~(dj.last.ev = "update" /\ dj.last.threw))
  /\ [](\A i \in DjInsts :
          (/\ dj.tasks = <<>>
           /\ \A T \in DjTypes : dj.fetches[T] > 0 => dj.structCache[T] # NoType
           /\ dj.inst[i].made /\ dj.inst[i].type # NoType) =>
            /\ dj.inst[i].element # 0
            /\ dj.cards[dj.inst[i].element].schema = dj.inst[i].type
            /\ Displayed(dj.inst[i].element))

\* C32: two instances that use the same type are isolated: each has a card of
\* its own whose input ids carry its own uid, and a change event on an input of
\* one instance's card changes the data and the carrier of that instance only
C32_Isolated ==
  /\ [](\A i \in DjInsts :
          dj.inst[i].element # 0 =>
            /\ dj.cards[dj.inst[i].element].owner = i
            /\ \A j \in DjInsts \ {i} :
                 dj.inst[j].element # dj.inst[i].element)
  /\ [][\A c \in 1..MaxCards, n \in 1..2, v \in {"", "v"}, i \in DjInsts :
          (DjChange(c, n, v) /\ dj.inst[i].element = c) =>
            \A j \in DjInsts \ {i} :
              /\ dj'.inst[j].data = dj.inst[j].data
              /\ dj'.inst[j].carrier = dj.inst[j].carrier]_vars

\* C33: when update() has completed, the carrier agrees with the displayed
\* card: each schema field whose displayed input is non-empty is in the carrier
\* with that value and every other schema field is absent from it, also after
\* a switch back to a type whose cached card holds values entered earlier
C33_CarrierAgreesWithCard ==
  \A i \in DjInsts :
    (UpdateDone(i) /\ dj.inst[i].type # NoType /\ dj.inst[i].element # 0) =>
      LET card == dj.cards[dj.inst[i].element]
      IN /\ dj.inst[i].carrier.def
         /\ \A n \in 1..Len(card.value) :
              dj.inst[i].carrier.vals[DjFields(card.schema)[n]] =
                IF card.value[n] = "" THEN Absent ELSE card.value[n]

\* C34: update() called with no new type, no new data and no keyword fields
\* is a no-op: it returns without throwing and leaves the type, the data, the
\* displayed card and the carrier as they were
C34_UpdateNoOp ==
  [][\A i \in DjInsts :
       DjUpdateNull(i) =>
         /\ ~dj'.last.threw
         /\ dj'.inst = dj.inst
         /\ dj'.cards = dj.cards]_vars

\* a pending timer fires and its hide() closes the displayed alert
TimerHides == TimerFire /\ modalShown /\ ~modalShown'

\* C35: the timer of one show(t) hides only that showing: once the modal was
\* hidden before t elapsed, a show() that displays it again leaves no way for
\* the earlier timer to hide the new showing
C35_TimerHidesOwnShowing ==
  [][\A timeout \in Timeouts :
       (AlertShow(timeout) /\ ~modalShown /\ timers > 0) => ~(ENABLED TimerHides)']_vars

\* C36: the one alert shared by the widgets shows the outcome of the operation
\* started last: the response of an earlier DELETE that arrives after the user
\* opened a later alert (here another delete warning) does not replace that
\* alert's title and body, its buttons or its confirm handler
C36_LateResponseKeepsAlert ==
  [][\A r \in Recs, outcome \in {"ok", "fail", "neterr"} :
       (DeleteResponse(r, outcome) /\ lastEvent = "delete") =>
         /\ modalBody' = modalBody
         /\ btnVisible' = btnVisible
         /\ btnListeners' = btnListeners
         /\ confirmActionHandlers' = confirmActionHandlers]_vars

\* C37: after any sequence of update(), removeHandler() and removeAllHandlers()
\* calls the list confirmActionHandlers holds exactly the confirm listeners
\* attached to the confirm button and at most one of them; right after an
\* update() a listener is there only if that update() listed 'confirm' and
\* passed a confirm action, and it is the one that update() installed, so that
\* no confirm action of an earlier alert is left to fire
C37_HandlersMatchListeners ==
  /\ Len(btnListeners) = Len(confirmActionHandlers)
  /\ {btnListeners[k].id : k \in 1..Len(btnListeners)} = Range(confirmActionHandlers)
  /\ Len(confirmActionHandlers) <= 1
  /\ \A k \in 1..Len(btnListeners) :
       /\ ~btnListeners[k].stale
       /\ btnListeners[k].kind # NoAction.kind
       /\ lastEvent = "update" => (btnVisible["confirm"] /\ btnListeners[k].runs = 0)

\* removeHandler() was called with a function that is not installed and the
\* installed confirm action is still the one listener of the confirm button
C37_Witness ==
  /\ lastEvent = "removeHandler"
  /\ Len(confirmActionHandlers) = 1
  /\ Len(btnListeners) = 1
  /\ btnListeners[1].id = confirmActionHandlers[1]


====
